---- MODULE Spec2Model ----
(***************************************************************************)
(* Model of src/py/models/utils/model.py: the three layer factories        *)
(* create_dense_stack, self_attention_block and pooling_attention.         *)
(*                                                                         *)
(* A layer object is a record of the constructor arguments it was built    *)
(* with.  A layer name is a record of its parts: f"{name}/dense_{i+1}" is  *)
(* [scope |-> name, base |-> "dense", idx |-> i + 1], f"{name}/sab" is     *)
(* [scope |-> name, base |-> "sab"] and the literal "rff" is               *)
(* [base |-> "rff"].                                                       *)
(***************************************************************************)
EXTENDS Integers, Sequences, FiniteSets, TLC

VARIABLES op, args, result, calls, prev

vars == <<op, args, result, calls, prev>>

----------------------------------------------------------------------------
(* Bounds of the explored inputs. *)

MaxLen == 3
MaxUnits == 2
MaxHeads == 2
MaxCalls == 3

Names == {"a", "b"}
Sizes == 1..MaxUnits
Heads == 1..MaxHeads

RECURSIVE TuplesUpTo(_)
TuplesUpTo(n) ==
    IF n = 0 THEN {<<>>}
    ELSE LET shorter == TuplesUpTo(n - 1)
         IN  shorter \cup {Append(t, h) : t \in {s \in shorter : Len(s) = n - 1}, h \in Sizes}

UnitTuples == TuplesUpTo(MaxLen)

----------------------------------------------------------------------------
(* Layer names. *)

IndexedName(name, base, n) == [scope |-> name, base |-> base, idx |-> n]

ScopedName(name, base) == [scope |-> name, base |-> base]

PlainName(base) == [base |-> base]

----------------------------------------------------------------------------
(* tf.keras.layers constructors as called by the factories. *)

Dense(units, activation, name) ==
    [kind |-> "Dense", units |-> units, activation |-> activation,
     kernel_initializer |-> "he_normal", bias_initializer |-> "zeros",
     name |-> name]

LayerNormalization(name) == [kind |-> "LayerNormalization", name |-> name]

ReLU(name) == [kind |-> "ReLU", name |-> name]

----------------------------------------------------------------------------
(* create_dense_stack *)

\* The condition of line 32, for the 0-based index i.
HasLayerNormOffByOne(units, use_layer_norm, omit_last_ln, i) ==
    use_layer_norm /\ (~omit_last_ln \/ i # Len(units))

HasLayerNormNoGuard(units, use_layer_norm, omit_last_ln, i) ==
    ~omit_last_ln \/ i # Len(units) - 1

HasLayerNorm(units, use_layer_norm, omit_last_ln, i) ==
    use_layer_norm /\ (~omit_last_ln \/ i # Len(units) - 1)

\* The dense layer's name; the stateful variant numbers layers with a
\* process-wide counter.
DenseNameCounted(name, i) == IndexedName(name, "dense", calls + i + 1)

DenseName(name, i) == IndexedName(name, "dense", i + 1)

\* The inner list of the comprehension for the 0-based index i.
DenseGroupReversed(units, name, use_layer_norm, omit_last_ln, i) ==
    <<Dense(units[Len(units) - i], "none", DenseName(name, i))>>
    \o (IF HasLayerNorm(units, use_layer_norm, omit_last_ln, i)
        THEN <<LayerNormalization(IndexedName(name, "ln", i + 1))>>
        ELSE <<>>)
    \o <<ReLU(IndexedName(name, "relu", i + 1))>>

DenseGroup(units, name, use_layer_norm, omit_last_ln, i) ==
    <<Dense(units[i + 1], "none", DenseName(name, i))>>
    \o (IF HasLayerNorm(units, use_layer_norm, omit_last_ln, i)
        THEN <<LayerNormalization(IndexedName(name, "ln", i + 1))>>
        ELSE <<>>)
    \o <<ReLU(IndexedName(name, "relu", i + 1))>>

\* The outer loop: groups of indices i, i + 1, ..., len(units) - 1 in order.
RECURSIVE DenseStackFrom(_, _, _, _, _)
DenseStackFrom(units, name, use_layer_norm, omit_last_ln, i) ==
    IF i >= Len(units) THEN <<>>
    ELSE DenseGroup(units, name, use_layer_norm, omit_last_ln, i)
         \o DenseStackFrom(units, name, use_layer_norm, omit_last_ln, i + 1)

create_dense_stack(units, name, use_layer_norm, omit_last_ln) ==
    DenseStackFrom(units, name, use_layer_norm, omit_last_ln, 0)

----------------------------------------------------------------------------
(* self_attention_block *)

self_attention_block_swapped(num_heads, depth, rff_units, name, use_layer_norm) ==
    [kind |-> "SAB",
     num_heads |-> num_heads,
     depth |-> rff_units,
     rff |-> Dense(depth, "relu", PlainName("rff")),
     use_layer_norm |-> use_layer_norm,
     query_kernel_initializer |-> "glorot_uniform",
     query_bias_initializer |-> "zeros",
     key_kernel_initializer |-> "glorot_uniform",
     key_bias_initializer |-> "zeros",
     value_kernel_initializer |-> "glorot_uniform",
     value_bias_initializer |-> "zeros",
     output_kernel_initializer |-> "glorot_uniform",
     output_bias_initializer |-> "zeros",
     name |-> ScopedName(name, "sab")]

self_attention_block(num_heads, depth, rff_units, name, use_layer_norm) ==
    [kind |-> "SAB",
     num_heads |-> num_heads,
     depth |-> depth,
     rff |-> Dense(rff_units, "relu", PlainName("rff")),
     use_layer_norm |-> use_layer_norm,
     query_kernel_initializer |-> "glorot_uniform",
     query_bias_initializer |-> "zeros",
     key_kernel_initializer |-> "glorot_uniform",
     key_bias_initializer |-> "zeros",
     value_kernel_initializer |-> "glorot_uniform",
     value_bias_initializer |-> "zeros",
     output_kernel_initializer |-> "glorot_uniform",
     output_bias_initializer |-> "zeros",
     name |-> ScopedName(name, "sab")]

----------------------------------------------------------------------------
(* pooling_attention *)

pooling_attention_swapped(num_seeds, num_heads, depth, rff_units, rff_s_units, name, use_layer_norm) ==
    [kind |-> "PMA",
     num_seeds |-> num_seeds,
     num_heads |-> num_heads,
     depth |-> depth,
     rff |-> Dense(rff_s_units, "relu", PlainName("rff")),
     rff_s |-> Dense(rff_units, "relu", PlainName("rff_s")),
     use_layer_norm |-> use_layer_norm,
     seed_initializer |-> "glorot_uniform",
     query_kernel_initializer |-> "glorot_uniform",
     query_bias_initializer |-> "zeros",
     key_kernel_initializer |-> "glorot_uniform",
     key_bias_initializer |-> "zeros",
     value_kernel_initializer |-> "glorot_uniform",
     value_bias_initializer |-> "zeros",
     output_kernel_initializer |-> "glorot_uniform",
     output_bias_initializer |-> "zeros",
     name |-> ScopedName(name, "pma")]

pooling_attention(num_seeds, num_heads, depth, rff_units, rff_s_units, name, use_layer_norm) ==
    [kind |-> "PMA",
     num_seeds |-> num_seeds,
     num_heads |-> num_heads,
     depth |-> depth,
     rff |-> Dense(rff_units, "relu", PlainName("rff")),
     rff_s |-> Dense(rff_s_units, "relu", PlainName("rff_s")),
     use_layer_norm |-> use_layer_norm,
     seed_initializer |-> "glorot_uniform",
     query_kernel_initializer |-> "glorot_uniform",
     query_bias_initializer |-> "zeros",
     key_kernel_initializer |-> "glorot_uniform",
     key_bias_initializer |-> "zeros",
     value_kernel_initializer |-> "glorot_uniform",
     value_bias_initializer |-> "zeros",
     output_kernel_initializer |-> "glorot_uniform",
     output_bias_initializer |-> "zeros",
     name |-> ScopedName(name, "pma")]

----------------------------------------------------------------------------
(* The argument records of the three factories. *)

DenseArgs ==
    [units : UnitTuples, name : Names,
     use_layer_norm : BOOLEAN, omit_last_ln : BOOLEAN]

SabArgs ==
    [num_heads : Heads, depth : Sizes, rff_units : Sizes, name : Names,
     use_layer_norm : BOOLEAN]

PmaArgs ==
    [num_seeds : Heads, num_heads : Heads, depth : Sizes, rff_units : Sizes,
     rff_s_units : Sizes, name : Names, use_layer_norm : BOOLEAN]

NoValue == [kind |-> "none"]

\* The value a call of factory f with argument record a returns.
Apply(f, a) ==
    CASE f = "create_dense_stack" ->
            create_dense_stack(a.units, a.name, a.use_layer_norm, a.omit_last_ln)
      [] f = "self_attention_block" ->
            self_attention_block(a.num_heads, a.depth, a.rff_units, a.name,
                                 a.use_layer_norm)
      [] f = "pooling_attention" ->
            pooling_attention(a.num_seeds, a.num_heads, a.depth, a.rff_units,
                              a.rff_s_units, a.name, a.use_layer_norm)

----------------------------------------------------------------------------
(* A process that calls the factories one after another: op, args and      *)
(* result are the latest call and its return value, calls the number of    *)
(* calls the process has made.  prev is the latest call of the process     *)
(* that ran before the present one was started.                            *)

Init ==
    /\ op = "none"
    /\ args = NoValue
    /\ result = NoValue
    /\ calls = 0
    /\ prev = NoValue

Call(f, a) ==
    /\ calls < MaxCalls
    /\ op' = f
    /\ args' = a
    /\ result' = Apply(f, a)
    /\ calls' = calls + 1
    /\ UNCHANGED prev

CallDenseStack == \E a \in DenseArgs : Call("create_dense_stack", a)

CallSelfAttentionBlock == \E a \in SabArgs : Call("self_attention_block", a)

CallPoolingAttention == \E a \in PmaArgs : Call("pooling_attention", a)

Next == CallDenseStack \/ CallSelfAttentionBlock \/ CallPoolingAttention

Spec == Init /\ [][Next]_vars

----------------------------------------------------------------------------
(* Two runs of the program: the first process makes a sequence of calls    *)
(* and ends; a new process is started and makes, as its first call, the    *)
(* call the first process made last.                                       *)

Restart ==
    /\ prev = NoValue
    /\ calls > 0
    /\ prev' = [op |-> op, args |-> args, result |-> result, calls |-> calls]
    /\ op' = "none"
    /\ args' = NoValue
    /\ result' = NoValue
    /\ calls' = 0

RepeatFirst ==
    /\ prev # NoValue
    /\ calls = 0
    /\ Call(prev.op, prev.args)

NextHist ==
    \/ prev = NoValue /\ CallDenseStack
    \/ prev = NoValue /\ CallSelfAttentionBlock
    \/ prev = NoValue /\ CallPoolingAttention
    \/ Restart
    \/ RepeatFirst

SpecHist == Init /\ [][NextHist]_vars

----
(* Properties. *)

IsDense(layer) == layer.kind = "Dense"

IsLayerNorm(layer) == layer.kind = "LayerNormalization"

DenseLayers(layers) == SelectSeq(layers, IsDense)

\* Number of Dense layers among the first p layers.
DenseCount(layers, p) == Len(DenseLayers(SubSeq(layers, 1, p)))

\* C1: create_dense_stack returns exactly len(units) Dense layers, and the
\* k-th Dense layer in list order has units equal to units[k-1].
C1_DenseUnitsInOrder ==
    op = "create_dense_stack" =>
        LET dense == DenseLayers(result)
        IN  /\ Len(dense) = Len(args.units)
            /\ \A k \in 1..Len(dense) : dense[k].units = args.units[k]

C1_Witness ==
    /\ op = "create_dense_stack"
    /\ Len(args.units) = 3
    /\ args.units[1] # args.units[2]
    /\ args.units[2] # args.units[3]
    /\ Len(DenseLayers(result)) = 3

\* C2: with use_layer_norm, a LayerNormalization layer follows the Dense
\* layer of 0-based index i iff i # len(units) - 1 when omit_last_ln is set,
\* and follows every Dense layer when omit_last_ln is not set.
C2_LayerNormPlacement ==
    (op = "create_dense_stack" /\ args.use_layer_norm) =>
        \A p \in 1..Len(result) :
            IsDense(result[p]) =>
                LET i == DenseCount(result, p) - 1
                    followed == p < Len(result) /\ IsLayerNorm(result[p + 1])
                IN  IF args.omit_last_ln
                    THEN followed <=> (i # Len(args.units) - 1)
                    ELSE followed

C2_Witness ==
    /\ op = "create_dense_stack"
    /\ args.use_layer_norm
    /\ args.omit_last_ln
    /\ Len(args.units) >= 2
    /\ IsLayerNorm(result[2])
    /\ ~IsLayerNorm(result[Len(result) - 1])

\* C3: without use_layer_norm the list holds no LayerNormalization layer
\* and equals the list returned for the other value of omit_last_ln.
C3_NoLayerNormWhenDisabled ==
    (op = "create_dense_stack" /\ ~args.use_layer_norm) =>
        /\ \A p \in 1..Len(result) : ~IsLayerNorm(result[p])
        /\ result = create_dense_stack(args.units, args.name, FALSE,
                                       ~args.omit_last_ln)

C3_Witness ==
    /\ op = "create_dense_stack"
    /\ ~args.use_layer_norm
    /\ args.omit_last_ln
    /\ Len(args.units) >= 2
    /\ Len(result) = 2 * Len(args.units)

\* C4: self_attention_block builds one SAB with num_heads, depth and
\* use_layer_norm as given, rff a relu Dense layer of rff_units units, and
\* the name <name>/sab.
C4_SabWiring ==
    op = "self_attention_block" =>
        /\ result.kind = "SAB"
        /\ result.num_heads = args.num_heads
        /\ result.depth = args.depth
        /\ result.use_layer_norm = args.use_layer_norm
        /\ result.rff.kind = "Dense"
        /\ result.rff.units = args.rff_units
        /\ result.rff.activation = "relu"
        /\ result.name = [scope |-> args.name, base |-> "sab"]

C4_Witness ==
    /\ op = "self_attention_block"
    /\ args.depth # args.rff_units
    /\ args.num_heads # args.depth
    /\ result.kind = "SAB"

\* C5: pooling_attention builds one PMA with num_seeds, num_heads, depth and
\* use_layer_norm as given, rff a Dense layer of rff_units units named rff,
\* rff_s another Dense layer of rff_s_units units named rff_s, and the name
\* <name>/pma.
C5_PmaWiring ==
    op = "pooling_attention" =>
        /\ result.kind = "PMA"
        /\ result.num_seeds = args.num_seeds
        /\ result.num_heads = args.num_heads
        /\ result.depth = args.depth
        /\ result.use_layer_norm = args.use_layer_norm
        /\ result.rff.kind = "Dense"
        /\ result.rff.units = args.rff_units
        /\ result.rff.name = [base |-> "rff"]
        /\ result.rff_s.kind = "Dense"
        /\ result.rff_s.units = args.rff_s_units
        /\ result.rff_s.name = [base |-> "rff_s"]
        /\ result.rff # result.rff_s
        /\ result.name = [scope |-> args.name, base |-> "pma"]

C5_Witness ==
    /\ op = "pooling_attention"
    /\ args.rff_units # args.rff_s_units
    /\ args.num_seeds # args.num_heads
    /\ result.kind = "PMA"

====
